---- MODULE Spec2Model ----
(***************************************************************************)
(* Delivery pipeline of astra-messenger: message rows, the send-request    *)
(* handlers, the cron tick (scheduled), processMessage workers, the        *)
(* conditional lock and updateMessageLog.  Time is in whole seconds.       *)
(***************************************************************************)
EXTENDS Integers, Sequences, FiniteSets, Bags, TLC

\* ---------------------------------------------------------------- bounds
MaxMsgs == 1           \* message rows ever created
MaxWorkers == 2        \* processMessage calls in flight at once
MaxTicks == 1          \* cron invocations between their two queries at once
MaxTime == 190         \* the clock stops advancing here
MaxDispatches == 4     \* scheduler dispatches counted per message
MaxCallers == 3        \* callers in the lockMessage race
SendAtDelay == 60      \* a future sendAt lies this many seconds ahead
MaxNow == 2            \* clock times at which a single request is tried
MaxSuccessStatus == 204  \* native provider statuses tried: 200..204,
MaxClientStatus == 429   \*   400..429
MaxServerStatus == 504   \*   and 500..504

\* ------------------------------------------------------ program constants
BaseDelaySeconds == 30
JitterMaxSeconds == 10
DefaultMaxAttempts == 3
SCHEDULED_BATCH_SIZE == 20
RETRY_BATCH_SIZE == 10
NoTime == -1           \* SQL NULL in a DATETIME column / undefined Date
NoAttempts == -1       \* options.attempts === undefined
NoCode == 0            \* SQL NULL in error_details / last_error

NoRequest == <<>>      \* no request body is being handled
NoCall == <<>>         \* no function call is being followed

Contacts == {"a"}
ToLists == {<<"a">>}
JitterValues == {0, JitterMaxSeconds - 1}
SelectableStatuses == {"SCHEDULED", "QUEUED", "FAILED"}

VARIABLES
    msgs,        \* the messages table: row id |-> row (ids are 1..Len(msgs))
    optOuts,     \* contacts with a TemplateOptOut row for the template
    now,         \* the wall clock (new Date())
    ticks,       \* cron invocations that ran getScheduledEmails, not yet getRetriableEmails
    workers,     \* bag of in-flight processMessage calls, each with its selection snapshot
    handlers,    \* in-flight immediate sends started by the request handlers
    dispatches,  \* per row: provider dispatches started by processMessage (history)
    hdispatches, \* per row: provider dispatches started by a request handler (history)
    response,    \* code of the last send-request response (0: none yet)
    request,     \* the request body the router is handling (SpecRequest), else NoRequest
    call         \* a provider-gateway or retry-policy call and its return value, else NoCall

vars == <<msgs, optOuts, now, ticks, workers, handlers, dispatches, hdispatches, response, request, call>>

Ids == 1..Len(msgs)

\* ------------------------------------------------------------ retry policy
Pow2(n) == IF n <= 0 THEN 1 ELSE 2 ^ n

\* calculateNextRetryTime with the jitter subtracted and no exponential growth
CalculateNextRetryTime_JitterSubtracts(attemptNumber, t, jitter) ==
    t + BaseDelaySeconds - jitter

CalculateNextRetryTime(attemptNumber, t, jitter) ==
    t + BaseDelaySeconds * Pow2(attemptNumber) + jitter

ShouldRetry(attempts, maxAttempts) == attempts < maxAttempts

\* ------------------------------------------------------- provider gateway
\* What a provider client hands back to EmailService (ProviderResponse).
ProviderResults ==
    { [code |-> 201, retriable |-> FALSE],
      [code |-> 400, retriable |-> FALSE],
      [code |-> 503, retriable |-> TRUE] }

\* EmailService.sendToProvider: the EmailResponse built from a provider result.
SendToProviderResult(r) ==
    [success |-> (r.code >= 200 /\ r.code < 300), code |-> r.code, retriable |-> r.retriable]

\* EmailService.sendToProvider, catch branch: the provider function threw.
SendToProviderThrown == [success |-> FALSE, code |-> 500, retriable |-> TRUE]

\* EmailService.sendTemplateEmail: every recipient opted out (retriable is undefined).
AllOptedOutResult == [success |-> FALSE, code |-> 400, retriable |-> FALSE]

\* sendTemplateEmail / processTemplateMessage: template not found.
TemplateNotFoundResult == [success |-> FALSE, code |-> 404, retriable |-> FALSE]

\* ------------------------------------------------------------- message log
NewRow(contact, hasTemplate, status, scheduledAt) ==
    [ contact |-> contact, template |-> hasTemplate, status |-> status,
      scheduledAt |-> scheduledAt, attempts |-> 0, maxAttempts |-> DefaultMaxAttempts,
      nextRetryAt |-> NoTime, sentAt |-> NoTime,
      errorDetails |-> NoCode, lastError |-> NoCode ]

\* MessageLogService.updateMessageLog: the row after prisma.message.update.
UpdatedRow(row, result, optAttempts, optNextRetryAt, t) ==
    LET status == IF result.success THEN "SENT" ELSE "FAILED" IN
    [ row EXCEPT
        !.status = status,
        !.sentAt = IF status = "SENT" THEN t ELSE @,
        !.errorDetails = IF status = "SENT" THEN @ ELSE result.code,
        !.attempts = IF optAttempts # NoAttempts THEN optAttempts ELSE @,
        !.nextRetryAt = IF optNextRetryAt # NoTime THEN optNextRetryAt ELSE @,
        !.lastError = IF result.code # NoCode THEN result.code ELSE @ ]

\* --------------------------------------------------------------- scheduler
RECURSIVE SortIds(_, _)
\* ids of S ordered by the row's field `key` ascending (NULL first), ties by id
SortIds(S, key) ==
    IF S = {} THEN <<>>
    ELSE LET m == CHOOSE i \in S : \A j \in S :
                    \/ msgs[i][key] < msgs[j][key]
                    \/ (msgs[i][key] = msgs[j][key] /\ i <= j)
         IN <<m>> \o SortIds(S \ {m}, key)

\* findMany without its take
Take_NoLimit(s, n) == s

Take(s, n) == IF Len(s) <= n THEN s ELSE SubSeq(s, 1, n)

\* getScheduledEmails without its scheduledAt <= now condition
ScheduledDue_NoTimeFilter(t) ==
    { i \in Ids : /\ msgs[i].status \in {"SCHEDULED", "QUEUED"}
                  /\ msgs[i].attempts < msgs[i].maxAttempts }

ScheduledDue(t) ==
    { i \in Ids : /\ msgs[i].status \in {"SCHEDULED", "QUEUED"}
                  /\ msgs[i].scheduledAt <= t
                  /\ msgs[i].attempts < msgs[i].maxAttempts }

GetScheduledEmails(t, limit) == Take(SortIds(ScheduledDue(t), "scheduledAt"), limit)

\* getRetriableEmails without its attempts < maxAttempts condition
RetriableDue_NoAttemptsFilter(t) ==
    { i \in Ids : /\ msgs[i].status = "FAILED"
                  /\ (msgs[i].nextRetryAt = NoTime \/ msgs[i].nextRetryAt <= t) }

RetriableDue(t) ==
    { i \in Ids : /\ msgs[i].status = "FAILED"
                  /\ msgs[i].attempts < msgs[i].maxAttempts
                  /\ (msgs[i].nextRetryAt = NoTime \/ msgs[i].nextRetryAt <= t) }

GetRetriableEmails(t, limit) == Take(SortIds(RetriableDue(t), "nextRetryAt"), limit)

\* The MessageWithRelations a tick hands to processMessage, as a worker.
Snapshot(i) ==
    [ id |-> i, attempts |-> msgs[i].attempts, maxAttempts |-> msgs[i].maxAttempts,
      template |-> msgs[i].template, contact |-> msgs[i].contact, pc |-> "lock" ]

\* scheduled() handing only the first selected row to processMessage
Spawn_FirstOnly(bag, sel) ==
    IF sel = <<>> THEN bag ELSE bag (+) SetToBag({Snapshot(Head(sel))})

RECURSIVE Spawn(_, _)
Spawn(bag, sel) ==
    IF sel = <<>> THEN bag
    ELSE Spawn(bag (+) SetToBag({Snapshot(Head(sel))}), Tail(sel))

\* ------------------------------------------------------------ helpers
Range(s) == { s[i] : i \in 1..Len(s) }

WorkerSet == BagToSet(workers)

RemoveWorker(w) == workers (-) SetToBag({w})

ReplaceWorker(w, v) == (workers (-) SetToBag({w})) (+) SetToBag({v})

\* TemplateOptOutService.isOptedOut for one address (fails open on a storage error)
IsOptedOut(contact, storageOk) == storageOk /\ contact \in optOuts

Init ==
    /\ msgs = <<>>
    /\ optOuts = {}
    /\ now = 0
    /\ ticks = 0
    /\ workers = EmptyBag
    /\ handlers = {}
    /\ dispatches = <<>>
    /\ hdispatches = <<>>
    /\ response = 0
    /\ request = NoRequest
    /\ call = NoCall

\* --------------------------------------------------------- request handlers
RECURSIVE LoggedRows(_, _, _, _)
\* MessageLogService.logTemplateEmail / logDirectEmail: one row per recipient
LoggedRows(to, hasTemplate, status, scheduledAt) ==
    IF to = <<>> THEN <<>>
    ELSE <<NewRow(Head(to), hasTemplate, status, scheduledAt)>>
            \o LoggedRows(Tail(to), hasTemplate, status, scheduledAt)

\* isFutureDate
IsFutureDate(date) == date > now

\* validateScheduledDate without its isFutureDate check
ValidateScheduledDate_NoFutureCheck(sendAt) == TRUE

\* validateScheduledDate: an absent sendAt is valid, one that is not in the future is rejected
ValidateScheduledDate(sendAt) == sendAt = NoTime \/ IsFutureDate(sendAt)

Zeros(n) == [i \in 1..n |-> 0]

\* updateMessageLog applied to each row of `ids` (the handler's Promise.all)
UpdatedRows(ids, result, optAttempts, optNextRetryAt) ==
    [i \in Ids |-> IF i \in ids
                   THEN UpdatedRow(msgs[i], result, optAttempts, optNextRetryAt, now)
                   ELSE msgs[i]]

\* handleTemplateEmail / handleDirectEmail up to the creation of the provider
\* promise: validation, logMessage, and the early return of a deferred send.
\* templateFound is the answer of TemplateService.getTemplate in logTemplateEmail.
\* A direct send reaches the provider call at once (sendDirectEmail reads no storage).
SendRequest(kind, to, sendAt, templateFound) ==
    IF ~ValidateScheduledDate(sendAt)
    THEN /\ response' = 400
         /\ UNCHANGED <<msgs, optOuts, now, ticks, workers, handlers, dispatches, hdispatches, request, call>>
    ELSE
      LET deferred == sendAt # NoTime /\ IsFutureDate(sendAt)
          scheduledAt == IF sendAt = NoTime THEN now ELSE sendAt
          status == IF deferred THEN "SCHEDULED" ELSE "QUEUED"
          rows == IF kind = "template" /\ ~templateFound THEN <<>>
                  ELSE LoggedRows(to, kind = "template", status, scheduledAt)
          ids == (Len(msgs) + 1)..(Len(msgs) + Len(rows))
          direct == kind = "direct"
      IN /\ msgs' = msgs \o rows
         /\ dispatches' = dispatches \o Zeros(Len(rows))
         /\ response' = 201
         /\ IF deferred \/ rows = <<>>
            THEN /\ handlers' = handlers
                 /\ hdispatches' = hdispatches \o Zeros(Len(rows))
            ELSE /\ handlers' = handlers \cup
                        {[ids |-> ids, to |-> Range(to), pc |-> IF direct THEN "send" ELSE "prepare"]}
                 /\ hdispatches' = hdispatches \o [i \in 1..Len(rows) |-> IF direct THEN 1 ELSE 0]
         /\ UNCHANGED <<optOuts, now, ticks, workers, request, call>>

\* EmailService.sendTemplateEmail called by handleTemplateEmail: opt-out filter and
\* template processing; either the provider call to the valid recipients starts,
\* or the early result is written to every logged row by the waitUntil continuation.
HandlerPrepare(h, optOutStorageOk, templateFound) ==
    /\ h \in handlers
    /\ h.pc = "prepare"
    /\ LET valid == { c \in h.to : ~IsOptedOut(c, optOutStorageOk) }
           early == IF valid = {} THEN AllOptedOutResult ELSE TemplateNotFoundResult
       IN IF valid = {} \/ ~templateFound
          THEN /\ handlers' = handlers \ {h}
               /\ msgs' = UpdatedRows(h.ids, early, NoAttempts, NoTime)
               /\ UNCHANGED hdispatches
          ELSE /\ handlers' = (handlers \ {h}) \cup {[h EXCEPT !.pc = "send"]}
               /\ hdispatches' = [i \in Ids |->
                        IF i \in h.ids /\ msgs[i].contact \in valid THEN hdispatches[i] + 1
                        ELSE hdispatches[i]]
               /\ UNCHANGED msgs
    /\ UNCHANGED <<optOuts, now, ticks, workers, dispatches, response, request, call>>

\* the handler's provider call returns `result` and its waitUntil continuation runs
\* updateMessageLog(message.id, result, env, {provider}) on every logged row
HandlerCompletes(h, result) ==
    /\ h \in handlers
    /\ h.pc = "send"
    /\ handlers' = handlers \ {h}
    /\ msgs' = UpdatedRows(h.ids, result, NoAttempts, NoTime)
    /\ UNCHANGED <<optOuts, now, ticks, workers, dispatches, hdispatches, response, request, call>>

\* updateMessageLog, catch branch, in the handler's continuation: the updates throw,
\* the error is logged and the rows keep their state
HandlerOutcomeLost(h) ==
    /\ h \in handlers
    /\ handlers' = handlers \ {h}
    /\ UNCHANGED <<msgs, optOuts, now, ticks, workers, dispatches, hdispatches, response, request, call>>

\* ------------------------------------------------------------------- cron
\* scheduled(): getScheduledEmails and one processMessage per selected row
TickScheduled(storageOk) ==
    LET sel == IF storageOk THEN GetScheduledEmails(now, SCHEDULED_BATCH_SIZE) ELSE <<>> IN
    /\ ticks < MaxTicks
    /\ BagCardinality(workers) + Len(sel) <= MaxWorkers
    /\ ticks' = ticks + 1
    /\ workers' = Spawn(workers, sel)
    /\ UNCHANGED <<msgs, optOuts, now, handlers, dispatches, hdispatches, response, request, call>>

\* scheduled(): getRetriableEmails and one processMessage per selected row
TickRetry(storageOk) ==
    LET sel == IF storageOk THEN GetRetriableEmails(now, RETRY_BATCH_SIZE) ELSE <<>> IN
    /\ ticks > 0
    /\ BagCardinality(workers) + Len(sel) <= MaxWorkers
    /\ ticks' = ticks - 1
    /\ workers' = Spawn(workers, sel)
    /\ UNCHANGED <<msgs, optOuts, now, handlers, dispatches, hdispatches, response, request, call>>

\* ---------------------------------------------------------------- workers
\* lockMessage without the status condition in its where clause
LockMatches_NoStatusCheck(i) == i \in Ids

LockMatches_SentToo(i) == msgs[i].status # "PROCESSING"

LockMatches_ProcessingToo(i) == msgs[i].status # "SENT"

\* the conditional update of SchedulerService.lockMessage: TRUE iff a row matched
LockMatches(i) == msgs[i].status \in SelectableStatuses

\* processMessage: lockMessage, then the template / direct branch
LockMessage(w) ==
    /\ w \in WorkerSet
    /\ w.pc = "lock"
    /\ IF LockMatches(w.id)
       THEN /\ msgs' = [msgs EXCEPT ![w.id].status = "PROCESSING"]
            /\ workers' = IF w.template THEN ReplaceWorker(w, [w EXCEPT !.pc = "prepare"])
                          ELSE RemoveWorker(w)
       ELSE /\ msgs' = msgs
            /\ workers' = RemoveWorker(w)
    /\ UNCHANGED <<optOuts, now, ticks, handlers, dispatches, hdispatches, response, request, call>>

\* lockMessage, catch branch: the storage call throws, lockMessage returns false
LockMessageStorageError(w) ==
    /\ w \in WorkerSet
    /\ w.pc = "lock"
    /\ workers' = RemoveWorker(w)
    /\ UNCHANGED <<msgs, optOuts, now, ticks, handlers, dispatches, hdispatches, response, request, call>>

\* processTemplateMessage lines 99-102: the attempts and nextRetryAt it passes on
NewAttempts(w) == w.attempts + 1

CanRetry(w, result) == result.retriable /\ ShouldRetry(NewAttempts(w), w.maxAttempts)

NextRetryAt(w, result, jitter) ==
    IF CanRetry(w, result) THEN CalculateNextRetryTime(NewAttempts(w), now, jitter) ELSE NoTime

\* processTemplateMessage: updateMessageLog(messageId, result, env, {attempts, nextRetryAt, provider})
PersistOutcome(w, result, jitter) ==
    [msgs EXCEPT ![w.id] =
        UpdatedRow(@, result, NewAttempts(w), NextRetryAt(w, result, jitter), now)]

\* processTemplateMessage up to the provider call: getProcessedTemplate, then
\* EmailService.sendTemplateEmail (opt-out check, getProcessedTemplate again).
\* Either the provider call starts, or the early result is persisted.
\* templateFound: TemplateService.getTemplate finds the template (both lookups).
Prepare(w, templateFound, optOutStorageOk) ==
    /\ w \in WorkerSet
    /\ w.pc = "prepare"
    /\ LET optedOut == IsOptedOut(w.contact, optOutStorageOk)
           early == IF templateFound /\ optedOut THEN AllOptedOutResult ELSE TemplateNotFoundResult
       IN IF ~templateFound \/ optedOut
          THEN /\ workers' = RemoveWorker(w)
               /\ msgs' = PersistOutcome(w, early, 0)
               /\ UNCHANGED dispatches
          ELSE /\ dispatches[w.id] < MaxDispatches
               /\ workers' = ReplaceWorker(w, [w EXCEPT !.pc = "send"])
               /\ dispatches' = [dispatches EXCEPT ![w.id] = @ + 1]
               /\ UNCHANGED msgs
    /\ UNCHANGED <<optOuts, now, ticks, handlers, hdispatches, response, request, call>>

\* the worker's provider call returns `result`; processTemplateMessage persists it
DispatchCompletes(w, result, jitter) ==
    /\ w \in WorkerSet
    /\ w.pc = "send"
    /\ workers' = RemoveWorker(w)
    /\ msgs' = PersistOutcome(w, result, jitter)
    /\ UNCHANGED <<optOuts, now, ticks, handlers, dispatches, hdispatches, response, request, call>>

\* updateMessageLog, catch branch, in processTemplateMessage: the update throws,
\* the error is logged and the row keeps its state (PROCESSING)
OutcomeLost(w) ==
    /\ w \in WorkerSet
    /\ w.pc \in {"prepare", "send"}
    /\ workers' = RemoveWorker(w)
    /\ UNCHANGED <<msgs, optOuts, now, ticks, handlers, dispatches, hdispatches, response, request, call>>

\* Math.random() * jitterMaxSeconds, as far as setSeconds keeps it (whole seconds)
JitterFor(w, result) == IF CanRetry(w, result) THEN JitterValues ELSE {0}

\* ------------------------------------------------------------ environment
\* optout-service addOptOut / removeOptOut for the template
AddOptOut(c) ==
    /\ c \notin optOuts
    /\ optOuts' = optOuts \cup {c}
    /\ UNCHANGED <<msgs, now, ticks, workers, handlers, dispatches, hdispatches, response, request, call>>

RemoveOptOut(c) ==
    /\ c \in optOuts
    /\ optOuts' = optOuts \ {c}
    /\ UNCHANGED <<msgs, now, ticks, workers, handlers, dispatches, hdispatches, response, request, call>>

\* the timestamps stored on rows: the instants at which a query's answer changes
DueTimes == { msgs[i].scheduledAt : i \in Ids } \cup { msgs[i].nextRetryAt : i \in Ids }

\* the clock moves on to the next stored timestamp
AdvanceTime(t) ==
    /\ t \in DueTimes
    /\ t > now
    /\ t <= MaxTime
    /\ now' = t
    /\ UNCHANGED <<msgs, optOuts, ticks, workers, handlers, dispatches, hdispatches, response, request, call>>

EmailResponses == { SendToProviderResult(r) : r \in ProviderResults } \cup {SendToProviderThrown}

Next ==
    \/ \E kind \in {"template", "direct"}, to \in ToLists, templateFound \in BOOLEAN :
         \E sendAt \in {NoTime, 0, now + SendAtDelay} :
            /\ Len(msgs) + Len(to) <= MaxMsgs
            /\ SendRequest(kind, to, sendAt, templateFound)
    \/ \E h \in handlers, ok \in BOOLEAN, found \in BOOLEAN : HandlerPrepare(h, ok, found)
    \/ \E h \in handlers, r \in EmailResponses : HandlerCompletes(h, r)
    \/ \E h \in handlers : HandlerOutcomeLost(h)
    \/ \E ok \in BOOLEAN : TickScheduled(ok)
    \/ \E ok \in BOOLEAN : TickRetry(ok)
    \/ \E w \in WorkerSet : LockMessage(w)
    \/ \E w \in WorkerSet : LockMessageStorageError(w)
    \/ \E w \in WorkerSet, found \in BOOLEAN, ok \in BOOLEAN : Prepare(w, found, ok)
    \/ \E w \in WorkerSet, r \in EmailResponses :
         \E j \in JitterFor(w, r) : DispatchCompletes(w, r, j)
    \/ \E w \in WorkerSet : OutcomeLost(w)
    \/ \E c \in Contacts : AddOptOut(c)
    \/ \E c \in Contacts : RemoveOptOut(c)
    \/ \E t \in DueTimes : AdvanceTime(t)

Spec == Init /\ [][Next]_vars

\* ------------------------------------------------------- the lockMessage race
\* rows a racing lockMessage can find: any selectable status, with the fields
\* the program can have written by then
RaceRows ==
    { [ NewRow("a", TRUE, st, 0) EXCEPT !.attempts = at, !.nextRetryAt = nr,
                                        !.errorDetails = err, !.lastError = err ] :
        st \in SelectableStatuses, at \in 0..(DefaultMaxAttempts - 1),
        nr \in {NoTime, SendAtDelay}, err \in {NoCode, 400, 503} }

RaceRowOk(r) ==
    /\ r.status \in {"SCHEDULED", "QUEUED"} =>
            r.attempts = 0 /\ r.nextRetryAt = NoTime /\ r.errorDetails = NoCode
    /\ r.status = "FAILED" => r.errorDetails # NoCode
    /\ r.nextRetryAt # NoTime => (r.attempts > 0 /\ r.errorDetails = 503)

\* MaxCallers processMessage calls, all holding the same selection snapshot of row 1,
\* are about to call lockMessage
RaceInit ==
    /\ msgs \in { <<r>> : r \in { x \in RaceRows : RaceRowOk(x) } }
    /\ optOuts \in SUBSET Contacts
    /\ now = SendAtDelay
    /\ ticks = 0
    /\ workers = [w \in {Snapshot(1)} |-> MaxCallers]
    /\ handlers = {}
    /\ dispatches \in { <<n>> : n \in 0..msgs[1].attempts }
    /\ hdispatches = <<0>>
    /\ response = 201
    /\ request = NoRequest
    /\ call = NoCall

RaceNext == \E w \in WorkerSet : LockMessage(w)

SpecRace == RaceInit /\ [][RaceNext]_vars

\* ------------------------------------------------------------ one lockMessage call
\* rows lockMessage can be called on: any status, as a stale snapshot allows
LockRows ==
    { [ NewRow("a", TRUE, st, 0) EXCEPT !.attempts = at, !.nextRetryAt = nr,
                                        !.errorDetails = err, !.lastError = err,
                                        !.sentAt = IF st = "SENT" THEN 0 ELSE NoTime ] :
        st \in SelectableStatuses \cup {"PROCESSING", "SENT"},
        at \in 0..DefaultMaxAttempts,
        nr \in {NoTime, SendAtDelay}, err \in {NoCode, 400, 503} }

\* one processMessage call is about to call lockMessage on row 1; call.row keeps
\* the row as it was before the call
LockInit ==
    /\ msgs \in { <<r>> : r \in { x \in LockRows : RaceRowOk(x) } }
    /\ optOuts \in SUBSET Contacts
    /\ now = SendAtDelay
    /\ ticks = 0
    /\ workers = SetToBag({Snapshot(1)})
    /\ handlers = {}
    /\ dispatches = <<msgs[1].attempts>>
    /\ hdispatches = <<0>>
    /\ response = 201
    /\ request = NoRequest
    /\ call = [row |-> msgs[1]]

LockNext == \E w \in WorkerSet : LockMessage(w) \/ LockMessageStorageError(w)

SpecLock == LockInit /\ [][LockNext]_vars

\* ------------------------------------------------------------ one processMessage call
\* the whole of processMessage for one caller, from lockMessage on
ProcessNext ==
    \/ \E w \in WorkerSet : LockMessage(w)
    \/ \E w \in WorkerSet : LockMessageStorageError(w)
    \/ \E w \in WorkerSet, found \in BOOLEAN, ok \in BOOLEAN : Prepare(w, found, ok)
    \/ \E w \in WorkerSet, r \in EmailResponses :
         \E j \in JitterFor(w, r) : DispatchCompletes(w, r, j)
    \/ \E w \in WorkerSet : OutcomeLost(w)

SpecProcess == LockInit /\ [][ProcessNext]_vars

\* ------------------------------------------------------------ progress
\* A deferred message, template or direct-content, is due; no process crashes and
\* no storage call fails.
ProgressInit ==
    /\ msgs \in { <<NewRow("a", hasTemplate, "SCHEDULED", SendAtDelay)>> :
                    hasTemplate \in BOOLEAN }
    /\ optOuts \in SUBSET Contacts
    /\ now = SendAtDelay
    /\ ticks = 0
    /\ workers = EmptyBag
    /\ handlers = {}
    /\ dispatches = <<0>>
    /\ hdispatches = <<0>>
    /\ response = 201
    /\ request = NoRequest
    /\ call = NoCall

ProgressTick == TickScheduled(TRUE) \/ TickRetry(TRUE)

ProgressLock == \E w \in WorkerSet : LockMessage(w)

ProgressPrepare == \E w \in WorkerSet, found \in BOOLEAN : Prepare(w, found, TRUE)

ProgressDispatch ==
    \E w \in WorkerSet, r \in EmailResponses :
        \E j \in JitterFor(w, r) : DispatchCompletes(w, r, j)

ProgressTime == \E t \in DueTimes : AdvanceTime(t)

ProgressNext ==
    \/ ProgressTick
    \/ ProgressLock
    \/ ProgressPrepare
    \/ ProgressDispatch
    \/ ProgressTime

\* every started processMessage call runs on: each of its awaits returns
SpecProgress ==
    /\ ProgressInit
    /\ [][ProgressNext]_vars
    /\ WF_vars(ProgressLock)
    /\ WF_vars(ProgressPrepare)
    /\ WF_vars(ProgressDispatch)

\* ------------------------------------------------------- one send request
\* A SendEmailRequestBody, by which fields are present: addressed (to and from),
\* subject, content (body and html), templateName, templateVariables; sendAt is a
\* time or absent; found is getTemplate's answer for templateName.
Requests ==
    [ addressed : BOOLEAN, subject : BOOLEAN, content : BOOLEAN,
      templateName : BOOLEAN, templateVariables : BOOLEAN,
      to : ToLists, sendAt : {NoTime} \cup (0..(MaxNow + SendAtDelay)), found : BOOLEAN ]

ValidateBaseRequest(body) == body.addressed

\* validateEmailType without its conflict check
ValidateEmailType_NoConflictCheck(body) ==
    /\ ~(body.subject /\ ~body.content)
    /\ ~(body.templateName /\ ~body.templateVariables)

ValidateEmailType(body) ==
    /\ ~(body.templateName /\ body.subject)
    /\ ~(body.subject /\ ~body.content)
    /\ ~(body.templateName /\ ~body.templateVariables)

\* a handler or the router returns code 400 before anything is logged or sent
Reject400 ==
    /\ response' = 400
    /\ UNCHANGED <<msgs, optOuts, now, ticks, workers, handlers, dispatches, hdispatches, request, call>>

HandleDirectEmail(body) ==
    IF /\ ValidateBaseRequest(body)
       /\ ValidateScheduledDate(body.sendAt)
       /\ ValidateEmailType(body)
       /\ body.subject /\ body.content
    THEN SendRequest("direct", body.to, body.sendAt, body.found)
    ELSE Reject400

HandleTemplateEmail(body) ==
    IF /\ ValidateBaseRequest(body)
       /\ ValidateScheduledDate(body.sendAt)
       /\ ValidateEmailType(body)
       /\ body.templateName /\ body.templateVariables
    THEN SendRequest("template", body.to, body.sendAt, body.found)
    ELSE Reject400

\* router.post('/'): the request in `request` is routed and answered
PostEmail ==
    /\ response = 0
    /\ IF request.subject THEN HandleDirectEmail(request)
       ELSE IF request.templateName THEN HandleTemplateEmail(request)
       ELSE Reject400

\* any request body arrives at an empty messages table, at any clock time,
\* with the recipient opted out or not
RequestInit ==
    /\ msgs = <<>>
    /\ optOuts \in SUBSET Contacts
    /\ now \in 0..MaxNow
    /\ ticks = 0
    /\ workers = EmptyBag
    /\ handlers = {}
    /\ dispatches = <<>>
    /\ hdispatches = <<>>
    /\ response = 0
    /\ request \in Requests
    /\ call = NoCall

RequestNext == PostEmail

SpecRequest == RequestInit /\ [][RequestNext]_vars

\* ------------------------------------------------------- provider backends
NetworkError == 0      \* fetch throws: there is no HTTP status

\* HTTP statuses a provider API can answer with
NativeStatuses == (200..MaxSuccessStatus) \cup (400..MaxClientStatus) \cup (500..MaxServerStatus)

Backends == {"ses", "resend", "mailersend"}

ProviderResponse(code, retriable) == [code |-> code, retriable |-> retriable]

\* mailersend-client send: the ProviderResponse for a native status
SendMailerSend(status) ==
    IF status = NetworkError THEN ProviderResponse(500, TRUE)
    ELSE IF status = 202 THEN ProviderResponse(201, FALSE)
    ELSE IF status = 400 THEN ProviderResponse(400, FALSE)
    ELSE IF status = 401 \/ status = 403 THEN ProviderResponse(401, FALSE)
    ELSE IF status = 422 THEN ProviderResponse(422, FALSE)
    ELSE IF status = 429 THEN ProviderResponse(429, TRUE)
    ELSE IF status >= 500 THEN ProviderResponse(status, TRUE)
    ELSE ProviderResponse(500, TRUE)

\* ses-client send
SendSes(status) ==
    IF status = NetworkError THEN ProviderResponse(500, TRUE)
    ELSE IF status = 200 \/ status = 201 THEN ProviderResponse(201, FALSE)
    ELSE IF status = 400 THEN ProviderResponse(400, FALSE)
    ELSE IF status = 403 THEN ProviderResponse(403, FALSE)
    ELSE IF status = 429 THEN ProviderResponse(429, TRUE)
    ELSE IF status >= 500 THEN ProviderResponse(status, TRUE)
    ELSE ProviderResponse(500, TRUE)

\* resend-client send (response.ok is 200..299)
SendResend(status) ==
    IF status = NetworkError THEN ProviderResponse(500, TRUE)
    ELSE IF status >= 200 /\ status <= 299 THEN ProviderResponse(201, FALSE)
    ELSE IF status = 400 THEN ProviderResponse(400, FALSE)
    ELSE IF status = 401 \/ status = 403 THEN ProviderResponse(401, FALSE)
    ELSE IF status = 422 THEN ProviderResponse(422, FALSE)
    ELSE IF status = 429 THEN ProviderResponse(429, TRUE)
    ELSE IF status >= 500 THEN ProviderResponse(status, TRUE)
    ELSE ProviderResponse(500, TRUE)

\* getEmailProvider: the provider function of a backend (mailersend when the name
\* is not recognized), applied to the answer of the provider API
GetEmailProvider(backend, status) ==
    CASE backend = "ses" -> SendSes(status)
      [] backend = "resend" -> SendResend(status)
      [] OTHER -> SendMailerSend(status)

\* a backend is about to be called and the provider API will answer call.status
ProviderInit ==
    /\ msgs = <<>>
    /\ optOuts = {}
    /\ now = 0
    /\ ticks = 0
    /\ workers = EmptyBag
    /\ handlers = {}
    /\ dispatches = <<>>
    /\ hdispatches = <<>>
    /\ response = 0
    /\ request = NoRequest
    /\ call \in [ backend : Backends, status : NativeStatuses \cup {NetworkError},
                  returned : {FALSE}, result : {ProviderResponse(0, FALSE)} ]

\* the backend's send returns
ProviderSend ==
    /\ ~call.returned
    /\ call' = [call EXCEPT !.returned = TRUE,
                            !.result = GetEmailProvider(call.backend, call.status)]
    /\ UNCHANGED <<msgs, optOuts, now, ticks, workers, handlers, dispatches, hdispatches,
                   response, request>>

SpecProvider == ProviderInit /\ [][ProviderSend]_vars

\* ------------------------------------------------------------ error classes
\* Strings are sequences of one-character strings.
UpperCase == <<"A", "B", "C", "D", "E", "F", "G", "H", "I", "J", "K", "L", "M", "N", "O", "P", "Q", "R", "S", "T", "U", "V", "W", "X", "Y", "Z">>

LowerCase == <<"a", "b", "c", "d", "e", "f", "g", "h", "i", "j", "k", "l", "m", "n", "o", "p", "q", "r", "s", "t", "u", "v", "w", "x", "y", "z">>

\* String.prototype.toLowerCase
ToLowerCase(text) ==
    [ i \in 1..Len(text) |->
        IF \E k \in 1..Len(UpperCase) : UpperCase[k] = text[i]
        THEN LowerCase[CHOOSE k \in 1..Len(UpperCase) : UpperCase[k] = text[i]]
        ELSE text[i] ]

\* String.prototype.includes
Includes(text, part) ==
    \E k \in 0..(Len(text) - Len(part)) :
        \A j \in 1..Len(part) : text[k + j] = part[j]

\* isRetriableError: the networkErrors list
NetworkErrors ==
    { <<"t", "i", "m", "e", "o", "u", "t">>,
      <<"e", "c", "o", "n", "n", "r", "e", "f", "u", "s", "e", "d">>,
      <<"e", "c", "o", "n", "n", "r", "e", "s", "e", "t">>,
      <<"n", "e", "t", "w", "o", "r", "k">>,
      <<"s", "o", "c", "k", "e", "t">>,
      <<"e", "t", "i", "m", "e", "d", "o", "u", "t">> }

\* error texts tried; the empty text stands for an absent errorMessage too
ErrorMessages ==
    { <<>>,
      <<"T", "i", "m", "e", "o", "u", "t">>,
      <<"E", "C", "O", "N", "N", "R", "E", "S", "E", "T">>,
      <<"S", "o", "c", "k", "e", "t", " ", "h", "a", "n", "g", " ", "u", "p">>,
      <<"g", "e", "t", "a", "d", "d", "r", "i", "n", "f", "o", " ", "f", "a", "i", "l", "e", "d">>,
      <<"N", "e", "t", "w", "o", "r", "k", " ", "d", "o", "w", "n">>,
      <<"B", "a", "d", " ", "R", "e", "q", "u", "e", "s", "t">>,
      <<"c", "o", "n", "n", "e", "c", "t", " ", "E", "T", "I", "M", "E", "D", "O", "U", "T">>,
      <<"t", "i", "m", "e", " ", "o", "u", "t">> }

IsRetriableError(statusCode, errorMessage) ==
    IF statusCode = 429 \/ statusCode >= 500 THEN TRUE
    ELSE IF errorMessage # <<>> /\
            \E err \in NetworkErrors : Includes(ToLowerCase(errorMessage), err)
    THEN TRUE
    ELSE IF statusCode \in {400, 401, 403, 404, 422} THEN FALSE
    ELSE FALSE

\* isRetriableError is about to be called with call.statusCode and call.errorMessage
RetriableInit ==
    /\ msgs = <<>>
    /\ optOuts = {}
    /\ now = 0
    /\ ticks = 0
    /\ workers = EmptyBag
    /\ handlers = {}
    /\ dispatches = <<>>
    /\ hdispatches = <<>>
    /\ response = 0
    /\ request = NoRequest
    /\ call \in [ statusCode : NativeStatuses, errorMessage : ErrorMessages,
                  returned : {FALSE}, result : {FALSE} ]

\* isRetriableError returns
IsRetriableErrorReturns ==
    /\ ~call.returned
    /\ call' = [call EXCEPT !.returned = TRUE,
                            !.result = IsRetriableError(call.statusCode, call.errorMessage)]
    /\ UNCHANGED <<msgs, optOuts, now, ticks, workers, handlers, dispatches, hdispatches,
                   response, request>>

SpecRetriable == RetriableInit /\ [][IsRetriableErrorReturns]_vars

\* ------------------------------------------------------------ retry decision
\* template keys tried: the key is part of the opt-out and not-found messages
TemplateKeys == { <<"w", "e", "l", "c", "o", "m", "e">>,
                  <<"n", "e", "t", "w", "o", "r", "k", "-", "s", "t", "a", "t", "u", "s">> }

\* the message a backend returns with a code (fixed texts; the recipient is "a")
MailerSendMessages(code) ==
        CASE code = 201 -> {<<"E", "m", "a", "i", "l", " ", "s", "e", "n", "t", " ", "t", "o", " ", "[", "\"", "a", "\"", "]">>}
          [] code = 400 -> {<<"I", "n", "c", "o", "r", "r", "e", "c", "t", " ", "p", "a", "r", "a", "m", "e", "t", "e", "r", "s">>}
          [] code = 401 -> {<<"T", "h", "e", " ", "A", "P", "I", " ", "k", "e", "y", " ", "i", "s", " ", "m", "i", "s", "s", "i", "n", "g", " ", "o", "r", " ", "i", "n", "v", "a", "l", "i", "d">>}
          [] code = 422 -> {<<"T", "h", "e", " ", "g", "i", "v", "e", "n", " ", "d", "a", "t", "a", " ", "i", "s", " ", "i", "n", "v", "a", "l", "i", "d">>}
          [] code = 429 -> {<<"T", "o", "o", " ", "m", "a", "n", "y", " ", "r", "e", "q", "u", "e", "s", "t", "s">>}
          [] OTHER -> {<<"S", "e", "r", "v", "e", "r", " ", "e", "r", "r", "o", "r">>, <<"U", "n", "k", "n", "o", "w", "n", " ", "e", "r", "r", "o", "r">>}

ResendMessages(code) ==
        CASE code = 201 -> {<<"E", "m", "a", "i", "l", " ", "s", "e", "n", "t", " ", "t", "o", " ", "[", "\"", "a", "\"", "]">>}
          [] code = 400 -> {<<"I", "n", "c", "o", "r", "r", "e", "c", "t", " ", "p", "a", "r", "a", "m", "e", "t", "e", "r", "s">>}
          [] code = 401 -> {<<"T", "h", "e", " ", "A", "P", "I", " ", "k", "e", "y", " ", "i", "s", " ", "m", "i", "s", "s", "i", "n", "g", " ", "o", "r", " ", "i", "n", "v", "a", "l", "i", "d">>}
          [] code = 422 -> {<<"V", "a", "l", "i", "d", "a", "t", "i", "o", "n", " ", "e", "r", "r", "o", "r">>}
          [] code = 429 -> {<<"T", "o", "o", " ", "m", "a", "n", "y", " ", "r", "e", "q", "u", "e", "s", "t">>}
          [] OTHER -> {<<"S", "e", "r", "v", "e", "r", " ", "e", "r", "r", "o", "r">>, <<"U", "n", "k", "n", "o", "w", "n", " ", "e", "r", "r", "o", "r">>}

SesMessages(code) ==
        CASE code = 201 -> {<<"E", "m", "a", "i", "l", " ", "s", "e", "n", "t", " ", "t", "o", " ", "[", "\"", "a", "\"", "]">>}
          [] code = 400 -> {<<"I", "n", "v", "a", "l", "i", "d", " ", "p", "a", "r", "a", "m", "e", "t", "e", "r", "s">>}
          [] code = 403 -> {<<"A", "u", "t", "h", "e", "n", "t", "i", "c", "a", "t", "i", "o", "n", "/", "a", "u", "t", "h", "o", "r", "i", "z", "a", "t", "i", "o", "n", " ", "e", "r", "r", "o", "r">>}
          [] code = 429 -> {<<"R", "a", "t", "e", " ", "l", "i", "m", "i", "t", " ", "e", "x", "c", "e", "e", "d", "e", "d">>}
          [] OTHER -> {<<"S", "e", "r", "v", "e", "r", " ", "e", "r", "r", "o", "r">>, <<"F", "a", "i", "l", "e", "d", " ", "t", "o", " ", "s", "e", "n", "d", " ", "e", "m", "a", "i", "l", " ", "t", "o", " ", "[", "\"", "a", "\"", "]">>}

BackendMessages(backend, code) ==
    CASE backend = "ses" -> SesMessages(code)
      [] backend = "resend" -> ResendMessages(code)
      [] OTHER -> MailerSendMessages(code)

\* sendTemplateEmail: the message of the result when every recipient opted out
OptedOutMessage(key) ==
    <<"A", "l", "l", " ", "r", "e", "c", "i", "p", "i", "e", "n", "t", "s", " ", "a", "r", "e", " ", "b", "l", "a", "c", "k", "l", "i", "s", "t", "e", "d", " ", "f", "o", "r", " ", "t", "e", "m", "p", "l", "a", "t", "e", " ", "\"">> \o key \o
    <<"\"", ":", " ", "a">>

\* sendTemplateEmail: the message of the result when the template is not found
TemplateNotFoundMessage(key) ==
    <<"T", "e", "m", "p", "l", "a", "t", "e", " ", "n", "o", "t", " ", "f", "o", "u", "n", "d", ":", " ">> \o key

\* sendToProvider, catch branch: the message of the result
ThrownMessage(errorMessage) ==
    <<"E", "r", "r", "o", "r", " ", "s", "e", "n", "d", "i", "n", "g", " ", "e", "m", "a", "i", "l", ":", " ">> \o errorMessage

\* the results sendTemplateEmail can hand to processTemplateMessage, each with
\* its message
DispatchResults ==
    UNION { { [result |-> SendToProviderResult(GetEmailProvider(b, s)), message |-> m] :
                m \in IF s = NetworkError THEN ErrorMessages
                      ELSE BackendMessages(b, GetEmailProvider(b, s).code) } :
            b \in Backends, s \in NativeStatuses \cup {NetworkError} }
    \cup { [result |-> SendToProviderThrown, message |-> ThrownMessage(m)] : m \in ErrorMessages }
    \cup { [result |-> AllOptedOutResult, message |-> OptedOutMessage(k)] : k \in TemplateKeys }
    \cup { [result |-> TemplateNotFoundResult, message |-> TemplateNotFoundMessage(k)] :
            k \in TemplateKeys }

\* processTemplateMessage has received call.result for a message read with
\* call.message.attempts
DecisionInit ==
    /\ msgs = <<>>
    /\ optOuts = {}
    /\ now = 0
    /\ ticks = 0
    /\ workers = EmptyBag
    /\ handlers = {}
    /\ dispatches = <<>>
    /\ hdispatches = <<>>
    /\ response = 0
    /\ request = NoRequest
    /\ call \in { [ result |-> d.result, text |-> d.message,
                     message |-> [attempts |-> at, maxAttempts |-> DefaultMaxAttempts],
                     decided |-> FALSE, nextRetryAt |-> NoTime ] :
                   d \in DispatchResults, at \in 0..(DefaultMaxAttempts - 1) }

\* processTemplateMessage lines 99-102: newAttempts, canRetry, nextRetryAt
RetryDecision ==
    /\ ~call.decided
    /\ \E jitter \in JitterFor(call.message, call.result) :
         call' = [call EXCEPT !.decided = TRUE,
                              !.nextRetryAt = NextRetryAt(call.message, call.result, jitter)]
    /\ UNCHANGED <<msgs, optOuts, now, ticks, workers, handlers, dispatches, hdispatches,
                   response, request>>

SpecDecision == DecisionInit /\ [][RetryDecision]_vars

\* ------------------------------------------------------------ opt-out rows
\* Two addOptOut calls for one (contact, template) pair.  The client runs on the D1
\* adapter, which runs the queries of $transaction one by one, so the queries of
\* two calls interleave; a call that runs alone is one of the interleavings.
MaxOptOutCallers == 2

OptOutCallers == 1..MaxOptOutCallers

Reasons == {"r1", "r2"}

NoRow == 0

\* template_optouts rows of the pair: none, or one written by an earlier call
InitialOptOutRows == { {}, {[id |-> 1, reason |-> "r0"]} }

OptOutInit ==
    /\ msgs = <<>>
    /\ optOuts = {}
    /\ now = 0
    /\ ticks = 0
    /\ workers = EmptyBag
    /\ handlers = {}
    /\ dispatches = <<>>
    /\ hdispatches = <<>>
    /\ response = 0
    /\ request = NoRequest
    /\ call \in [ rows : InitialOptOutRows,
                  templateFound : BOOLEAN,
                  reason : [OptOutCallers -> Reasons],
                  pc : {[c \in OptOutCallers |-> "called"]},
                  existing : {[c \in OptOutCallers |-> NoRow]},
                  success : {[c \in OptOutCallers |-> FALSE]},
                  started : {<<>>},
                  returned : {<<>>} ]

OptOutUnchanged ==
    UNCHANGED <<msgs, optOuts, now, ticks, workers, handlers, dispatches, hdispatches,
                response, request>>

\* contact.upsert and template.findFirst; an unknown template ends the call
AddOptOutFindTemplate(c) ==
    /\ call.pc[c] = "called"
    /\ call' = IF call.templateFound
               THEN [call EXCEPT !.pc[c] = "find", !.started = Append(@, c)]
               ELSE [call EXCEPT !.pc[c] = "returned", !.started = Append(@, c),
                                 !.returned = Append(@, c)]
    /\ OptOutUnchanged

\* templateOptOut.findFirst
AddOptOutFindExisting(c) ==
    /\ call.pc[c] = "find"
    /\ call' = [call EXCEPT !.pc[c] = "write",
                            !.existing[c] = IF call.rows = {} THEN NoRow
                                            ELSE (CHOOSE r \in call.rows : TRUE).id]
    /\ OptOutUnchanged

\* templateOptOut.update or templateOptOut.create; create throws on the unique
\* index (contactId, templateId) and the catch returns success: false
AddOptOutWrite(c) ==
    /\ call.pc[c] = "write"
    /\ call' =
         IF call.existing[c] # NoRow
         THEN [call EXCEPT !.rows = { IF r.id = call.existing[c]
                                      THEN [r EXCEPT !.reason = call.reason[c]]
                                      ELSE r : r \in call.rows },
                           !.success[c] = TRUE,
                           !.pc[c] = "returned", !.returned = Append(@, c)]
         ELSE IF call.rows # {}
         THEN [call EXCEPT !.pc[c] = "returned", !.returned = Append(@, c)]
         ELSE [call EXCEPT !.rows = {[id |-> 1, reason |-> call.reason[c]]},
                           !.success[c] = TRUE,
                           !.pc[c] = "returned", !.returned = Append(@, c)]
    /\ OptOutUnchanged

OptOutNext ==
    \E c \in OptOutCallers :
        \/ AddOptOutFindTemplate(c)
        \/ AddOptOutFindExisting(c)
        \/ AddOptOutWrite(c)

SpecOptOut == OptOutInit /\ [][OptOutNext]_vars

\* ------------------------------------------------------------ termination
\* A template message has just been stored: deferred and now due, or immediate
\* with its request handler about to call sendTemplateEmail.  No process crashes
\* and no storage call fails.
TerminateInit ==
    /\ \E deferred \in BOOLEAN :
         /\ msgs = <<NewRow("a", TRUE, IF deferred THEN "SCHEDULED" ELSE "QUEUED", SendAtDelay)>>
         /\ handlers = IF deferred THEN {}
                       ELSE {[ids |-> {1}, to |-> {"a"}, pc |-> "prepare"]}
    /\ optOuts \in SUBSET Contacts
    /\ now = SendAtDelay
    /\ ticks = 0
    /\ workers = EmptyBag
    /\ dispatches = <<0>>
    /\ hdispatches = <<0>>
    /\ response = 201
    /\ request = NoRequest
    /\ call = NoCall

\* processTemplateMessage: processTemplate throws (new RegExp on a variable name
\* that is not a valid pattern); the catch of processMessage logs the error and
\* the call ends
RenderThrows(w) ==
    /\ w \in WorkerSet
    /\ w.pc = "prepare"
    /\ workers' = RemoveWorker(w)
    /\ UNCHANGED <<msgs, optOuts, now, ticks, handlers, dispatches, hdispatches, response, request, call>>

TerminateNext ==
    \/ \E h \in handlers, found \in BOOLEAN : HandlerPrepare(h, TRUE, found)
    \/ \E h \in handlers, r \in EmailResponses : HandlerCompletes(h, r)
    \/ TickScheduled(TRUE)
    \/ TickRetry(TRUE)
    \/ \E w \in WorkerSet : LockMessage(w)
    \/ \E w \in WorkerSet, found \in BOOLEAN : Prepare(w, found, TRUE)
    \/ \E w \in WorkerSet : RenderThrows(w)
    \/ \E w \in WorkerSet, r \in EmailResponses :
         \E j \in JitterFor(w, r) : DispatchCompletes(w, r, j)
    \/ \E t \in DueTimes : AdvanceTime(t)

SpecTerminate == TerminateInit /\ [][TerminateNext]_vars

\* ------------------------------------------------------------ selection queries
MaxQueryRows == 3

\* the timestamps stored on the rows; the clock stands at the middle one
QueryTimes == {30, 60, 90}

\* rows the table can hold: new rows, failed rows with or without a retry time,
\* and rows that are being processed or have been sent
QueryRows ==
    { NewRow("a", TRUE, st, t) : st \in {"SCHEDULED", "QUEUED"}, t \in QueryTimes }
    \cup { [ NewRow("a", TRUE, "FAILED", 30) EXCEPT !.attempts = at, !.nextRetryAt = nr,
                                                      !.errorDetails = 503, !.lastError = 503 ] :
            at \in {1, DefaultMaxAttempts}, nr \in {NoTime, 30, 90} }
    \cup { NewRow("a", TRUE, "PROCESSING", 30),
           [NewRow("a", TRUE, "SENT", 30) EXCEPT !.attempts = 1, !.sentAt = 30] }

\* getScheduledEmails(env, limit) or getRetriableEmails(env, limit) is about to
\* run on a table of MaxQueryRows rows
QueryInit ==
    /\ msgs \in [1..MaxQueryRows -> QueryRows]
    /\ optOuts = {}
    /\ now = 60
    /\ ticks = 0
    /\ workers = EmptyBag
    /\ handlers = {}
    /\ dispatches = Zeros(MaxQueryRows)
    /\ hdispatches = Zeros(MaxQueryRows)
    /\ response = 0
    /\ request = NoRequest
    /\ call \in [ query : {"scheduled", "retriable"}, limit : 1..MaxQueryRows,
                  returned : {FALSE}, result : {<<>>} ]

\* the query returns its rows, or [] when the storage call throws
QueryReturns(storageOk) ==
    /\ ~call.returned
    /\ call' = [call EXCEPT
                  !.returned = TRUE,
                  !.result = IF ~storageOk THEN <<>>
                             ELSE IF call.query = "scheduled"
                             THEN GetScheduledEmails(now, call.limit)
                             ELSE GetRetriableEmails(now, call.limit)]
    /\ UNCHANGED <<msgs, optOuts, now, ticks, workers, handlers, dispatches, hdispatches,
                   response, request>>

QueryNext == \E storageOk \in BOOLEAN : QueryReturns(storageOk)

SpecQuery == QueryInit /\ [][QueryNext]_vars

\* ------------------------------------------------------------ one batch
MaxBatchRows == 2

\* MaxBatchRows deferred template messages are due when the cron fires; selection
\* queries, lockMessage and updateMessageLog may throw, and so may the provider
\* call and the template rendering
BatchInit ==
    /\ msgs = [i \in 1..MaxBatchRows |-> NewRow("a", TRUE, "SCHEDULED", SendAtDelay)]
    /\ optOuts = {}
    /\ now = SendAtDelay
    /\ ticks = 0
    /\ workers = EmptyBag
    /\ handlers = {}
    /\ dispatches = Zeros(MaxBatchRows)
    /\ hdispatches = Zeros(MaxBatchRows)
    /\ response = 201
    /\ request = NoRequest
    /\ call = NoCall

\* a processMessage call ends on an exception or a failed storage call
WorkerError(w) ==
    \/ LockMessageStorageError(w)
    \/ OutcomeLost(w)
    \/ RenderThrows(w)
    \/ DispatchCompletes(w, SendToProviderThrown, 0)

BatchNext ==
    \/ \E ok \in BOOLEAN : TickScheduled(ok)
    \/ \E ok \in BOOLEAN : TickRetry(ok)
    \/ \E w \in WorkerSet : LockMessage(w)
    \/ \E w \in WorkerSet, found \in BOOLEAN : Prepare(w, found, TRUE)
    \/ \E w \in WorkerSet, r \in EmailResponses : DispatchCompletes(w, r, 0)
    \/ \E w \in WorkerSet : RenderThrows(w)
    \/ \E w \in WorkerSet : LockMessageStorageError(w)
    \/ \E w \in WorkerSet : OutcomeLost(w)

SpecBatch == BatchInit /\ [][BatchNext]_vars

\* ------------------------------------------------------------ opt-out lookup
Addresses == {"a", "b"}

\* the contacts and template_optouts tables: opt-out rows belong to stored contacts
OptOutTables ==
    UNION { { [contacts |-> cs, optOuts |-> rows] :
                rows \in SUBSET [contact : cs, template : TemplateKeys] } :
            cs \in SUBSET Addresses }

\* isOptedOut answering on the error path instead of failing open
IsOptedOutLookup_FailsClosed(table, emailAddress, templateKey, storageOk) ==
    IF ~storageOk THEN TRUE
    ELSE /\ emailAddress \in table.contacts
         /\ { r \in table.optOuts : r.contact = emailAddress /\ r.template = templateKey } # {}

\* isOptedOut: contact.findUnique by address, including its optOuts for the
\* template key; isOptedOut: false when the lookup throws
IsOptedOutLookup(table, emailAddress, templateKey, storageOk) ==
    IF ~storageOk THEN FALSE
    ELSE /\ emailAddress \in table.contacts
         /\ { r \in table.optOuts : r.contact = emailAddress /\ r.template = templateKey } # {}

\* isOptedOut(emailAddress, templateKey) is about to run
LookupInit ==
    /\ msgs = <<>>
    /\ optOuts = {}
    /\ now = 0
    /\ ticks = 0
    /\ workers = EmptyBag
    /\ handlers = {}
    /\ dispatches = <<>>
    /\ hdispatches = <<>>
    /\ response = 0
    /\ request = NoRequest
    /\ call \in [ table : OptOutTables, emailAddress : Addresses, templateKey : TemplateKeys,
                  storageOk : {TRUE}, returned : {FALSE}, isOptedOut : {FALSE} ]

\* isOptedOut returns; the storage call answered or threw
IsOptedOutReturns(storageOk) ==
    /\ ~call.returned
    /\ call' = [call EXCEPT
                  !.returned = TRUE,
                  !.storageOk = storageOk,
                  !.isOptedOut = IsOptedOutLookup(call.table, call.emailAddress,
                                                  call.templateKey, storageOk)]
    /\ UNCHANGED <<msgs, optOuts, now, ticks, workers, handlers, dispatches, hdispatches,
                   response, request>>

LookupNext == \E storageOk \in BOOLEAN : IsOptedOutReturns(storageOk)

SpecLookup == LookupInit /\ [][LookupNext]_vars

\* ------------------------------------------------------------ several recipients
\* one immediate template request addressed to both addresses, while contacts opt
\* out and in
MultiToLists == {<<"a", "b">>, <<"b", "a">>}

MultiNext ==
    \/ \E to \in MultiToLists, found \in BOOLEAN :
         /\ msgs = <<>>
         /\ SendRequest("template", to, NoTime, found)
    \/ \E h \in handlers, ok \in BOOLEAN, found \in BOOLEAN : HandlerPrepare(h, ok, found)
    \/ \E h \in handlers, r \in EmailResponses : HandlerCompletes(h, r)
    \/ \E h \in handlers : HandlerOutcomeLost(h)
    \/ \E c \in Addresses : AddOptOut(c)
    \/ \E c \in Addresses : RemoveOptOut(c)

SpecMulti == Init /\ [][MultiNext]_vars

\* ------------------------------------------------------------ template rendering
\* TemplateService.processTemplate on strings held as sequences of characters
MaxVariables == 2

VariableKeys == {<<"a">>, <<"b">>}

VariableValues == {<<"x">>, <<"{", "{", "b", "}", "}">>, <<"{", "{", "a", "}", "}">>, <<>>}

TemplateTexts == {<<"{", "{", "a", "}", "}">>, <<"{", "{", "a", "}", "}", "x", "{", "{", "b", "}", "}">>, <<"x", "{", "{", "c", "}", "}">>, <<"{", "{", "a", "}", "}", "{", "{", "a", "}", "}">>}

\* `{{${key}}}`
Placeholder(key) == <<"{", "{">> \o key \o <<"}", "}">>

MatchAt(str, i, pattern) ==
    /\ i + Len(pattern) - 1 <= Len(str)
    /\ SubSeq(str, i, i + Len(pattern) - 1) = pattern

\* str.replace(new RegExp(pattern, 'g'), value) from position i on: the matches are
\* taken left to right and do not overlap
RECURSIVE ReplaceFrom(_, _, _, _)
ReplaceFrom(str, i, pattern, value) ==
    IF i > Len(str) THEN <<>>
    ELSE IF MatchAt(str, i, pattern)
         THEN value \o ReplaceFrom(str, i + Len(pattern), pattern, value)
         ELSE <<str[i]>> \o ReplaceFrom(str, i + 1, pattern, value)

\* Object.entries(variables).forEach(...) on one of the three strings: one global
\* replace per variable, in the order of the entries, each on the result of the last
RECURSIVE ProcessField(_, _)
ProcessField(str, variables) ==
    IF variables = <<>> THEN str
    ELSE ProcessField(ReplaceFrom(str, 1, Placeholder(Head(variables).key), Head(variables).value),
                      Tail(variables))

ProcessTemplate(template, variables) ==
    [ subject |-> ProcessField(template.subject, variables),
      html    |-> ProcessField(template.htmlContent, variables),
      text    |-> ProcessField(template.textContent, variables) ]

\* the entries of a variables object: every key at most once, in insertion order
VariableLists ==
    { v \in UNION { [1..n -> [key : VariableKeys, value : VariableValues]] : n \in 0..MaxVariables } :
        \A i, j \in 1..Len(v) : i # j => v[i].key # v[j].key }

RenderInit ==
    /\ msgs = <<>>
    /\ optOuts = {}
    /\ now = 0
    /\ ticks = 0
    /\ workers = EmptyBag
    /\ handlers = {}
    /\ dispatches = <<>>
    /\ hdispatches = <<>>
    /\ response = 0
    /\ request = NoRequest
    /\ call \in [ template : [subject : TemplateTexts, htmlContent : TemplateTexts,
                               textContent : TemplateTexts],
                  variables : VariableLists,
                  returned : {FALSE},
                  result : {[subject |-> <<>>, html |-> <<>>, text |-> <<>>]} ]

ProcessTemplateReturns ==
    /\ ~call.returned
    /\ call' = [call EXCEPT !.returned = TRUE,
                            !.result = ProcessTemplate(call.template, call.variables)]
    /\ UNCHANGED <<msgs, optOuts, now, ticks, workers, handlers, dispatches, hdispatches,
                   response, request>>

SpecRender == RenderInit /\ [][ProcessTemplateReturns]_vars

\* ------------------------------------------------------------ backend selection
\* EMAIL_CONFIG.DEFAULT_PROVIDER
DefaultProvider == "mailersend"

\* the provider argument left out (undefined)
Unspecified == "undefined"

\* what a caller may pass as provider: the three names, nothing, and other strings
ProviderIdentifiers == Backends \cup {Unspecified, "", "SES", "sendgrid"}

\* getProvider that hands back whatever it was given
GetProvider_NoFallback(provider) == provider

\* getProvider
GetProvider(provider) ==
    IF provider = "ses" \/ provider = "resend" \/ provider = "mailersend"
    THEN provider
    ELSE DefaultProvider

\* getEmailProvider: the name of the provider function the switch returns
EmailProviderFunction(provider) ==
    CASE provider = "ses" -> "sendSes"
      [] provider = "resend" -> "sendResend"
      [] provider = "mailersend" -> "sendMailerSend"
      [] OTHER -> "sendMailerSend"

\* a selection is about to be made, in any state of the opt-out table and the clock
SelectInit ==
    /\ msgs = <<>>
    /\ optOuts \in SUBSET Addresses
    /\ now \in 0..MaxNow
    /\ ticks = 0
    /\ workers = EmptyBag
    /\ handlers = {}
    /\ dispatches = <<>>
    /\ hdispatches = <<>>
    /\ response = 0
    /\ request = NoRequest
    /\ call \in [ fn : {"getProvider", "getEmailProvider"}, provider : ProviderIdentifiers,
                  returned : {FALSE}, result : {""} ]

GetProviderReturns ==
    /\ call.fn = "getProvider"
    /\ ~call.returned
    /\ call' = [call EXCEPT !.returned = TRUE, !.result = GetProvider(call.provider)]
    /\ UNCHANGED <<msgs, optOuts, now, ticks, workers, handlers, dispatches, hdispatches,
                   response, request>>

GetEmailProviderReturns ==
    /\ call.fn = "getEmailProvider"
    /\ ~call.returned
    /\ call' = [call EXCEPT !.returned = TRUE, !.result = EmailProviderFunction(call.provider)]
    /\ UNCHANGED <<msgs, optOuts, now, ticks, workers, handlers, dispatches, hdispatches,
                   response, request>>

SpecSelect == SelectInit /\ [][GetProviderReturns \/ GetEmailProviderReturns]_vars

\* ------------------------------------------------------------------ claims
\* processMessage calls whose provider dispatch for row i is in flight
WorkersDispatching(i) ==
    BagCardinality([w \in { x \in WorkerSet : x.id = i /\ x.pc = "send" } |-> workers[w]])

\* a request handler's provider dispatch for row i is in flight
HandlerDispatching(i) ==
    \E h \in handlers : h.pc = "send" /\ i \in h.ids /\ hdispatches[i] > 0

CallersAt(pc) ==
    BagCardinality([w \in { x \in WorkerSet : x.pc = pc } |-> workers[w]])

\* C1: for every message at most one provider dispatch started by processMessage is
\* in flight at any instant: no second lockMessage on the message returns true (and
\* lets a second worker dispatch) before the lock owner has persisted its outcome.
C1_OneDispatchInFlight == \A i \in Ids : WorkersDispatching(i) <= 1

\* C2: while the request handler's own dispatch of an immediate send is in flight,
\* no scheduler worker dispatches the same message.
C2_NoDispatchBesideHandler ==
    \A i \in Ids : HandlerDispatching(i) => WorkersDispatching(i) = 0

C4_DispatchesWithinMaxAttempts ==
    \A i \in Ids :
        /\ dispatches[i] <= msgs[i].maxAttempts
        /\ WorkersDispatching(i) > 0 => msgs[i].attempts < msgs[i].maxAttempts

\* C5: no step lowers the stored attempts of a message.
C5_AttemptsNeverDecrease ==
    [][\A i \in Ids : msgs'[i].attempts >= msgs[i].attempts]_vars

\* C6: every message has attempts <= maxAttempts in every reachable state.
C6_AttemptsWithinMax == \A i \in Ids : msgs[i].attempts <= msgs[i].maxAttempts

\* C6 witness: a message has used up its attempts after scheduler dispatches
C6_Exhausted ==
    \E i \in Ids : msgs[i].attempts = msgs[i].maxAttempts /\ dispatches[i] >= msgs[i].maxAttempts

\* C7: whenever no dispatch of a message is in flight, its stored attempts equals the
\* number of provider dispatches made for it (by workers and by the request handler).
C7_AttemptsCountDispatches ==
    \A i \in Ids :
        (WorkersDispatching(i) = 0 /\ ~HandlerDispatching(i)) =>
            msgs[i].attempts = dispatches[i] + hdispatches[i]

\* C8: once a message is SENT no step changes its status and no dispatch starts for it.
C8_SentAbsorbing ==
    [][\A i \in Ids : msgs[i].status = "SENT" =>
            (msgs'[i].status = "SENT" /\ dispatches'[i] = dispatches[i])]_vars

\* C9: a message that is FAILED with attempts = maxAttempts is never moved to
\* PROCESSING.
C9_TerminalFailedAbsorbing ==
    [][\A i \in Ids :
            (msgs[i].status = "FAILED" /\ msgs[i].attempts = msgs[i].maxAttempts) =>
                msgs'[i].status # "PROCESSING"]_vars

\* C10: when the first scheduler dispatch of a message returns a non-retriable
\* provider failure, the message becomes FAILED with attempts = 1 and no nextRetryAt,
\* and the scheduler's queries do not select it again.
C10_TerminalProviderFailure ==
    [][\A w \in WorkerSet :
            (w.attempts = 0 /\
             DispatchCompletes(w, SendToProviderResult([code |-> 400, retriable |-> FALSE]), 0)) =>
                /\ msgs'[w.id].status = "FAILED"
                /\ msgs'[w.id].attempts = 1
                /\ msgs'[w.id].nextRetryAt = NoTime
                /\ w.id \notin (ScheduledDue(now) \cup RetriableDue(now))']_vars

\* C11: when a worker's dispatch fails retriably and the new attempts equals
\* maxAttempts, the message ends FAILED with attempts = maxAttempts and nextRetryAt
\* null, whatever earlier failures had stored.
C11_ExhaustedHasNoRetryTime ==
    [][\A w \in WorkerSet :
            (NewAttempts(w) = w.maxAttempts /\
             DispatchCompletes(w, SendToProviderResult([code |-> 503, retriable |-> TRUE]), 0)) =>
                /\ msgs'[w.id].status = "FAILED"
                /\ msgs'[w.id].attempts = msgs'[w.id].maxAttempts
                /\ msgs'[w.id].nextRetryAt = NoTime]_vars

\* C12: when a retry dispatch succeeds after one or more retriable failures, the
\* message ends SENT with sentAt set and nextRetryAt null.
C12_SuccessClearsRetryTime ==
    [][\A w \in WorkerSet :
            (w.attempts >= 1 /\ msgs[w.id].nextRetryAt # NoTime /\
             DispatchCompletes(w, SendToProviderResult([code |-> 201, retriable |-> FALSE]), 0)) =>
                /\ msgs'[w.id].status = "SENT"
                /\ msgs'[w.id].sentAt # NoTime
                /\ msgs'[w.id].nextRetryAt = NoTime]_vars

\* C13: after the n-th retriable failure of a message (the attempts written is
\* n < maxAttempts), nextRetryAt lies between BaseDelaySeconds * 2^(n-1) and
\* BaseDelaySeconds * 2^(n-1) + JitterMaxSeconds after the failure time.
C13_BackoffExponentIsAttemptIndex ==
    [][\A w \in WorkerSet : \A r \in EmailResponses : \A j \in JitterValues :
            (CanRetry(w, r) /\ DispatchCompletes(w, r, j)) =>
                LET n == msgs'[w.id].attempts
                    delay == msgs'[w.id].nextRetryAt - now
                IN /\ delay >= BaseDelaySeconds * Pow2(n - 1)
                   /\ delay <= BaseDelaySeconds * Pow2(n - 1) + JitterMaxSeconds]_vars

C15_NoLockBeforeRetryTime ==
    [][\A i \in Ids :
            (msgs[i].status = "FAILED" /\ msgs[i].nextRetryAt > now) =>
                msgs'[i].status # "PROCESSING"]_vars

\* processMessage calls in flight for row i (at any step)
WorkersOn(i) == { w \in WorkerSet : w.id = i }

C17_NoRowForOptedOut ==
    [][\A to \in ToLists, found \in BOOLEAN : \A sendAt \in {NoTime, now + SendAtDelay} :
            SendRequest("template", to, sendAt, found) =>
                \A i \in (Len(msgs) + 1)..Len(msgs') : msgs'[i].contact \notin optOuts]_vars

\* C18: a worker processing a scheduled or retried template message does not
\* consult the opt-out rows: with the template found, its provider dispatch starts
\* even when the recipient has opted out since the message was created.
C18_WorkerIgnoresOptOut ==
    [][\A w \in WorkerSet :
            (w.contact \in optOuts /\ Prepare(w, TRUE, TRUE)) =>
                /\ dispatches'[w.id] = dispatches[w.id] + 1
                /\ msgs'[w.id] = msgs[w.id]]_vars

\* a request body that passes every check other than the one on sendAt
WellFormed(body) ==
    /\ ValidateBaseRequest(body)
    /\ ValidateEmailType(body)
    /\ body.subject \/ body.templateName

\* the request was answered 400 and left no row and no dispatch behind
RejectedWithoutEffect ==
    /\ response' = 400
    /\ msgs' = msgs
    /\ handlers' = handlers
    /\ dispatches' = dispatches /\ hdispatches' = hdispatches

C20_BothOrNeitherRejected ==
    [][((request.subject <=> request.templateName) /\ PostEmail) =>
            RejectedWithoutEffect]_vars

\* C20 witness: an otherwise complete request carrying both a subject and a
\* templateName, without sendAt, has been answered 400
C20_ConflictAnswered ==
    /\ request.subject /\ request.templateName
    /\ request.addressed /\ request.content /\ request.templateVariables
    /\ request.sendAt = NoTime
    /\ response = 400
    /\ msgs = <<>>

\* C21: when a storage call fails while a worker processes a message (in
\* lockMessage, or in the outcome update of processTemplateMessage), the message
\* row is unchanged and its status is still SCHEDULED, QUEUED or FAILED, so that the
\* next tick can select it.
C21_StorageFailureKeepsSelectable ==
    [][\A w \in WorkerSet :
            /\ LockMessageStorageError(w) =>
                    (msgs' = msgs /\
                     (msgs[w.id].status \in SelectableStatuses =>
                            msgs'[w.id].status \in SelectableStatuses))
            /\ OutcomeLost(w) =>
                    (msgs' = msgs /\ msgs'[w.id].status \in SelectableStatuses)]_vars

\* C22: every status change of a message is a listed transition: rows are created
\* SCHEDULED or QUEUED, lockMessage takes SCHEDULED, QUEUED or FAILED to PROCESSING,
\* and only PROCESSING goes to SENT or FAILED; no message leaves SENT.
C22_OnlyListedTransitions ==
    [][LET ListedTransitions ==
                { <<"SCHEDULED", "PROCESSING">>, <<"QUEUED", "PROCESSING">>,
                  <<"FAILED", "PROCESSING">>,
                  <<"PROCESSING", "SENT">>, <<"PROCESSING", "FAILED">> }
       IN /\ \A i \in Ids :
                msgs'[i].status # msgs[i].status =>
                    <<msgs[i].status, msgs'[i].status>> \in ListedTransitions
          /\ \A i \in (Len(msgs) + 1)..Len(msgs') :
                msgs'[i].status \in {"SCHEDULED", "QUEUED"}]_vars

\* C23: every backend maps a native 2xx to a success code, 429 and 5xx to
\* retriable = TRUE, each of 400, 401, 403, 404 and 422 to retriable = FALSE, and a
\* network exception to retriable = TRUE.
C23_BackendsFollowContract ==
    call.returned =>
        /\ (call.status >= 200 /\ call.status <= 299) =>
                (call.result.code >= 200 /\ call.result.code <= 299)
        /\ (call.status = 429 \/ call.status >= 500) => call.result.retriable
        /\ call.status \in {400, 401, 403, 404, 422} => ~call.result.retriable
        /\ call.status = NetworkError => call.result.retriable

\* C24: isRetriableError returns FALSE for every statusCode in {400, 401, 403, 404,
\* 422} whatever the error text, TRUE for 429 and every code >= 500, TRUE for any
\* other code only when the text contains a network-failure keyword, and FALSE
\* otherwise.
C24_ErrorClasses ==
    call.returned =>
        LET keyword == \E err \in NetworkErrors : Includes(ToLowerCase(call.errorMessage), err)
        IN /\ call.statusCode \in {400, 401, 403, 404, 422} => ~call.result
           /\ (call.statusCode = 429 \/ call.statusCode >= 500) => call.result
           /\ (call.statusCode \notin {400, 401, 403, 404, 422, 429} /\ call.statusCode < 500) =>
                    (call.result <=> keyword)

\* C25: after two addOptOut calls for one contact and one known template, run one
\* after the other or concurrently, exactly one OptOut row exists for the pair and
\* it carries the reason of the latest call (the call that started last or the
\* call that returned last).
C25_AddOptOutIdempotent ==
    (call.templateFound /\ \A c \in OptOutCallers : call.pc[c] = "returned") =>
        \E r \in call.rows :
            /\ call.rows = {r}
            /\ \/ r.reason = call.reason[call.started[Len(call.started)]]
               \/ r.reason = call.reason[call.returned[Len(call.returned)]]

\* C26: lockMessage returns true (the caller goes on to process the row) only when
\* the row was SCHEDULED, QUEUED or FAILED, and then the row differs from before in
\* its status alone, which is PROCESSING; when it returns false (the row was
\* PROCESSING or SENT, or the storage call threw) every field of the row is as
\* before.
C26_LockFrame ==
    /\ CallersAt("prepare") = 1 =>
            /\ call.row.status \in {"SCHEDULED", "QUEUED", "FAILED"}
            /\ msgs[1] = [call.row EXCEPT !.status = "PROCESSING"]
    /\ workers = EmptyBag => msgs[1] = call.row
    /\ call.row.status \in {"PROCESSING", "SENT"} =>
            (CallersAt("prepare") = 0 /\ msgs[1] = call.row)

\* C26 witness: lockMessage was called on a SENT row and has returned false
C26_LockRefusedOnSent == call.row.status = "SENT" /\ workers = EmptyBag

\* C27: when processMessage does not acquire the lock (lockMessage leaves the
\* status as it was), the call ends there: it changes no field of the message,
\* dispatches nothing and takes no further step.
C27_FailedLockDoesNothing ==
    [][ (CallersAt("lock") = 1 /\ CallersAt("lock")' = 0
            /\ msgs'[1].status = msgs[1].status) =>
        (msgs' = msgs /\ dispatches' = dispatches /\ workers' = EmptyBag) ]_vars

\* C27 witness: the call found the row PROCESSING and has ended
C27_SkippedHeldRow == call.row.status = "PROCESSING" /\ workers = EmptyBag

\* C28: after a scheduler dispatch a nextRetryAt is written if and only if the
\* dispatch failed, isRetriableError(code, message) holds for its result and
\* shouldRetry(attempts + 1, maxAttempts) holds, for every result the orchestrator
\* can receive (provider results, thrown provider errors, opt-out and
\* template-not-found results).
C28_RetryDecisionAgrees ==
    call.decided =>
        (call.nextRetryAt # NoTime <=>
            /\ ~call.result.success
            /\ IsRetriableError(call.result.code, call.text)
            /\ ShouldRetry(call.message.attempts + 1, call.message.maxAttempts))

\* C29: when the template of a locked message is not found, the message becomes
\* FAILED with no nextRetryAt and the scheduler's queries do not select it again,
\* even though its attempts is below maxAttempts.
C29_MissingTemplateIsTerminal ==
    [][\A w \in WorkerSet : \A ok \in BOOLEAN :
            Prepare(w, FALSE, ok) =>
                /\ msgs'[w.id].status = "FAILED"
                /\ msgs'[w.id].nextRetryAt = NoTime
                /\ w.id \notin (ScheduledDue(now) \cup RetriableDue(now))']_vars

\* C30: absent process crashes and storage failures, a message that processMessage
\* has moved to PROCESSING eventually becomes SENT or FAILED, a direct-content
\* message (no template) included.
C30_ProcessingEnds ==
    (msgs[1].status = "PROCESSING") ~> (msgs[1].status \in {"SENT", "FAILED"})

\* C31: with no crashes and no storage failures every template message reaches a
\* final state: once no request handler and no processMessage call is in flight
\* for it and no tick can select it any more, the message is SENT or FAILED.
C31_TemplateMessageEnds ==
    \A i \in Ids :
        (/\ msgs[i].template
         /\ WorkersOn(i) = {}
         /\ \A h \in handlers : i \notin h.ids
         /\ ~(msgs[i].status \in SelectableStatuses /\ msgs[i].attempts < msgs[i].maxAttempts))
            => msgs[i].status \in {"SENT", "FAILED"}

C33_SuccessClearsErrorFields ==
    [][LET sent == SendToProviderResult([code |-> 201, retriable |-> FALSE])
           cleared(i) == msgs'[i].errorDetails = NoCode /\ msgs'[i].lastError = NoCode
       IN /\ \A w \in WorkerSet : DispatchCompletes(w, sent, 0) => cleared(w.id)
          /\ \A h \in handlers : HandlerCompletes(h, sent) => \A i \in h.ids : cleared(i)]_vars

\* C34: a tick never fails as a whole.  A selection query that throws yields an
\* empty batch and the tick goes on; a tick hands every selected row to its own
\* processMessage call; and when one processMessage call ends on an error
\* (storage failure, provider exception, rendering exception) the calls for the
\* other messages stay in flight and the rows of the other messages are untouched.
C34_ErrorsConfinedToOneMessage ==
    [][/\ (TickScheduled(FALSE) \/ TickRetry(FALSE)) =>
            (workers' = workers /\ msgs' = msgs /\ ticks' # ticks)
       /\ TickScheduled(TRUE) =>
            \A i \in ScheduledDue(now) :
                CopiesIn(Snapshot(i), workers') > CopiesIn(Snapshot(i), workers)
       /\ TickRetry(TRUE) =>
            \A i \in RetriableDue(now) :
                CopiesIn(Snapshot(i), workers') > CopiesIn(Snapshot(i), workers)
       /\ \A w \in WorkerSet :
            WorkerError(w) =>
                /\ \A v \in WorkerSet : v.id # w.id => CopiesIn(v, workers') = CopiesIn(v, workers)
                /\ \A i \in Ids : i # w.id => msgs'[i] = msgs[i]]_vars

\* C34 witness: the call for message 1 ended on an error after the lock and left
\* its row PROCESSING, while message 2 of the same tick was dispatched and is SENT
C34_OtherMessageProcessed ==
    /\ msgs[1].status = "PROCESSING" /\ WorkersOn(1) = {} /\ dispatches[1] = 0
    /\ msgs[2].status = "SENT" /\ dispatches[2] = 1

\* C35: isOptedOut fails open: it returns not opted out when the storage lookup
\* throws and when no Contact exists for the address, and it returns opted out only
\* when an OptOut row exists for that contact and the template with the given key.
C35_IsOptedOutFailsOpen ==
    call.returned =>
        /\ ~call.storageOk => ~call.isOptedOut
        /\ call.emailAddress \notin call.table.contacts => ~call.isOptedOut
        /\ call.isOptedOut =>
                [contact |-> call.emailAddress, template |-> call.templateKey]
                    \in call.table.optOuts

\* C35 witness: the lookup threw for a contact that has an OptOut row for the
\* template, and isOptedOut returned not opted out
C35_FailedOpen ==
    /\ call.returned /\ ~call.storageOk /\ ~call.isOptedOut
    /\ [contact |-> call.emailAddress, template |-> call.templateKey] \in call.table.optOuts

\* C36: a message is SENT only if a provider dispatch addressed to its own
\* recipient was made (and succeeded); in a request to several recipients of whom
\* some are opted out, the rows of the skipped recipients are never marked SENT.
C36_SentOnlyIfDispatchedToRecipient ==
    \A i \in Ids : msgs[i].status = "SENT" => dispatches[i] + hdispatches[i] >= 1

\* a provider dispatch for message i returns success in this step, to the worker
\* or to the request handler that made it
SuccessArrives(i) ==
    \E r \in EmailResponses :
        /\ r.success
        /\ \/ \E w \in WorkerSet : w.id = i /\ DispatchCompletes(w, r, 0)
           \/ \E h \in handlers : i \in h.ids /\ HandlerCompletes(h, r)

\* C37: no message is successfully delivered twice. A row is SENT only through a
\* dispatch that returned success, so once it is SENT no further dispatch for it,
\* by a request handler or by a worker of any scheduler tick, returns success.
C37_DeliveredOnce ==
    [][\A i \in Ids : msgs[i].status = "SENT" => ~SuccessArrives(i)]_vars

\* the value of the variable whose placeholder starts at position i of str, if any
VariableAt(str, i, variables) ==
    { v \in { variables[n] : n \in 1..Len(variables) } : MatchAt(str, i, Placeholder(v.key)) }

\* the literal substitution: one pass over the original string, every placeholder
\* of a given variable gives way to its value, everything else is copied
RECURSIVE LiteralFrom(_, _, _)
LiteralFrom(str, i, variables) ==
    IF i > Len(str) THEN <<>>
    ELSE IF VariableAt(str, i, variables) # {}
         THEN LET v == CHOOSE x \in VariableAt(str, i, variables) : TRUE
              IN v.value \o LiteralFrom(str, i + Len(Placeholder(v.key)), variables)
         ELSE <<str[i]>> \o LiteralFrom(str, i + 1, variables)

\* C38: rendering is a literal, non-recursive substitution: each placeholder of the
\* original subject, HTML and text gives way to its variable's value, placeholder
\* text brought in by a value is not substituted again, and placeholders without a
\* variable stay as they are.
C38_RenderingIsLiteral ==
    call.returned =>
        /\ call.result.subject = LiteralFrom(call.template.subject, 1, call.variables)
        /\ call.result.html = LiteralFrom(call.template.htmlContent, 1, call.variables)
        /\ call.result.text = LiteralFrom(call.template.textContent, 1, call.variables)

\* the backend the selection is to give for an identifier, as its name and as its
\* provider function
SelectedBackend ==
    [ getProvider |-> [ses |-> "ses", resend |-> "resend", mailersend |-> "mailersend"],
      getEmailProvider |-> [ses |-> "sendSes", resend |-> "sendResend",
                            mailersend |-> "sendMailerSend"] ]

====
